---- MODULE Spec2Model ----
(***************************************************************************)
(* Model of the test execution engine of src/app/main.py: the handler      *)
(* execute_test builds a throwaway Python script from a TestCase, runs it   *)
(* in a child process, parses the child's stdout into StepResults and       *)
(* returns a TestResult, deleting the script in a finally block.            *)
(*                                                                          *)
(* The text of a step's automation code is abstracted to a sequence of      *)
(* statements (tokens).  The Python semantics of the generated program is   *)
(* the operator RunScript.                                                  *)
(***************************************************************************)
EXTENDS Integers, Sequences, FiniteSets, TLC

\* ------------------------------------------------------------------ bounds
MaxSteps == 2        \* longest steps list of a submitted TestCase
SameSteps == 2       \* longest steps list under the same-TestCase specification
MaxClock == 2        \* the wall clock runs from 0 to MaxClock
ConcSteps == 1       \* longest steps list under the two-request specification

Runs == {1, 2}       \* request slots (concurrent execute_test coroutines)
Paths == {"tmp_a", "tmp_b", "tmp_c"}    \* names the temp directory can hold

\* --------------------------------------------------- statements of step code
\* The three statements that execute_test removes from a step's code.
StrippedStmts == {"js_launch_headed", "js_new_context", "js_new_page"}

\* Statements that are valid Python inside the generated try block.
\*   ok             completes
\*   raise          raises Exception("boom")
\*   print_text     writes a stdout line that is not JSON
\*   print_scalar   writes a stdout line that is JSON but not an object
\*   print_partial  writes a JSON object without the record's keys
\*   print_badbytes writes bytes that are not valid UTF-8
\*   exit           ends the process with exit code 3 (SystemExit, which is
\*                  no Exception)
PyStmts == {"ok", "raise", "print_text", "print_scalar", "print_partial",
            "print_badbytes", "exit"}

\* "js_launch_headless" is the launch statement with headless: true, which
\* none of the three replace() patterns matches.
AllStmts == PyStmts \cup StrippedStmts \cup {"js_launch_headless"}

\* The two code variants of one step, as generated for a feature test.
CodePairs ==
  { [headless |-> <<"ok">>, headed |-> <<"ok">>],
    [headless |-> <<"raise">>, headed |-> <<"raise">>],
    [headless |-> <<"ok">>, headed |-> <<"raise">>],
    [headless |-> <<"print_text", "ok">>, headed |-> <<"print_scalar", "ok">>],
    [headless |-> <<"print_partial", "ok">>, headed |-> <<"print_badbytes", "ok">>],
    [headless |-> <<"js_launch_headless", "js_new_context", "js_new_page", "ok">>,
     headed |-> <<"js_launch_headed", "js_new_context", "js_new_page", "ok">>] }

\* Code variants under which one step completes, faults or ends the process,
\* depending on the mode.
ExitPairs ==
  { [headless |-> <<"ok">>, headed |-> <<"exit">>],
    [headless |-> <<"raise">>, headed |-> <<"ok">>] }

PlainPairs ==
  { [headless |-> <<"ok">>, headed |-> <<"ok">>],
    [headless |-> <<"raise">>, headed |-> <<"raise">>] }

\* ------------------------------------------------------------- data model
\* class Step: the fields execute_test reads, plus order and the coverage tags.
Step(tcid, o, pair) ==
  [ step_id |-> <<tcid, o>>,
    order |-> o,
    name |-> <<"step", tcid, o>>,
    automation_code_headless |-> pair.headless,
    automation_code_headed |-> pair.headed,
    acceptance_criteria_covered |-> <<o>> ]

\* class TestCase
TestCase(tcid, steps) ==
  [ test_case_id |-> tcid,
    name |-> <<"case", tcid>>,
    steps |-> steps,
    acceptance_criteria_covered |-> <<"ac1", "ac2">> ]

Injective(f) == \A i, j \in DOMAIN f : f[i] = f[j] => i = j

\* Every TestCase of at most maxLen steps: the order fields are distinct but
\* the list may hold them in any position.
TestCasesOver(tcid, pairs, maxLen) ==
  UNION { { TestCase(tcid, [i \in 1..n |-> Step(tcid, ord[i], cp[i])]) :
              ord \in { f \in [1..n -> 1..maxLen] : Injective(f) },
              cp \in [1..n -> pairs] } :
          n \in 0..maxLen }

TcIdOf(r) == IF r = 1 THEN "A" ELSE "B"

NoCase == TestCase("-", <<>>)

\* ------------------------------------------------------ the script builder
\* A variant that ignores the mode flag.
SelectCodeHeaded(step, hl) == step.automation_code_headed

\* main.py:158  the code variant of the run's mode
SelectCode(step, hl) ==
  IF hl THEN step.automation_code_headless ELSE step.automation_code_headed

\* main.py:160-162  three str.replace calls remove the known bootstrap statements
Sanitize(code) == SelectSeq(code, LAMBDA s : s \notin StrippedStmts)

\* main.py:141-194  the program text written to the temp file: the prologue
\* with the mode flag, one wrapped block per step in list position, the epilogue
BuildScript(t, hl) ==
  [ headless |-> hl,
    steps |-> [i \in 1..Len(t.steps) |->
                 [ step_id |-> t.steps[i].step_id,
                   name |-> t.steps[i].name,
                   code |-> Sanitize(SelectCode(t.steps[i], hl)) ]] ]

\* ----------------------------------------- the generated program (child side)
NoiseLine(kind) ==
  [ kind |-> kind, step_id |-> <<>>, name |-> <<>>, status |-> "",
    error |-> <<>>, execution_time |-> 0 ]

\* main.py:170-175 and 178-184  the json.dumps record a step block prints
RecordLine(st, status, error) ==
  [ kind |-> "record", step_id |-> st.step_id, name |-> st.name,
    status |-> status, error |-> error, execution_time |-> 0 ]

StmtOutput(stmt) ==
  CASE stmt = "print_text" -> << NoiseLine("text") >>
    [] stmt = "print_scalar" -> << NoiseLine("scalar") >>
    [] stmt = "print_partial" -> << NoiseLine("partial") >>
    [] stmt = "print_badbytes" -> << NoiseLine("badbytes") >>
    [] OTHER -> <<>>

\* The statements of one step's code run left to right until one raises.
RECURSIVE ExecCode(_, _)
ExecCode(code, j) ==
  IF j > Len(code) THEN [lines |-> <<>>, raised |-> FALSE, exited |-> FALSE]
  ELSE IF code[j] = "raise" THEN [lines |-> <<>>, raised |-> TRUE, exited |-> FALSE]
  ELSE IF code[j] = "exit" THEN [lines |-> <<>>, raised |-> FALSE, exited |-> TRUE]
  ELSE LET rest == ExecCode(code, j + 1)
       IN [lines |-> StmtOutput(code[j]) \o rest.lines, raised |-> rest.raised,
           exited |-> rest.exited]

\* main.py:166-185  one step block: try / print passed / except Exception:
\* print failed with str(e), then raise.  SystemExit passes through the
\* except clause, so a step that exits prints no record.
RunStep(st) ==
  LET e == ExecCode(st.code, 1)
  IN [ lines |-> IF e.exited THEN e.lines
                 ELSE e.lines \o
                      << IF e.raised THEN RecordLine(st, "failed", <<"boom">>)
                         ELSE RecordLine(st, "passed", <<>>) >>,
       raised |-> e.raised,
       exited |-> e.exited ]

\* A variant that swallows the exception instead of re-raising it.
RECURSIVE RunStepsNoRaise(_, _)
RunStepsNoRaise(steps, i) ==
  IF i > Len(steps) THEN <<>>
  ELSE LET s == RunStep(steps[i])
       IN IF s.exited THEN s.lines ELSE s.lines \o RunStepsNoRaise(steps, i + 1)

\* main.py:153-186  the step blocks in sequence inside the outer try: the
\* re-raise of a failed block skips every later block
RECURSIVE RunSteps(_, _)
RunSteps(steps, i) ==
  IF i > Len(steps) THEN <<>>
  ELSE LET s == RunStep(steps[i])
       IN IF s.raised \/ s.exited THEN s.lines
          ELSE s.lines \o RunSteps(steps, i + 1)

\* How the sequence of step blocks ends: every block completed ("end"), a
\* block re-raised its exception ("raised") or ended the process ("exited").
RECURSIVE HowEnded(_, _)
HowEnded(steps, i) ==
  IF i > Len(steps) THEN "end"
  ELSE LET s == RunStep(steps[i])
       IN IF s.raised THEN "raised"
          ELSE IF s.exited THEN "exited"
          ELSE HowEnded(steps, i + 1)

\* Python compiles the file before running any of it: a try with an empty
\* body (no step block), or a statement that is not Python, is a SyntaxError.
Compiles(script) ==
  /\ Len(script.steps) > 0
  /\ \A i \in 1..Len(script.steps) :
       \A j \in 1..Len(script.steps[i].code) : script.steps[i].code[j] \in PyStmts

\* What a child that ran none of the script leaves behind.
NotRun(code, err) ==
  [stdout |-> <<>>, exitcode |-> code, stderr |-> err, opened |-> 0, closed |-> 0]

\* main.py:141-194  what running the file does: the lines on stdout, the exit
\* code, what stderr holds, and how many browser sessions the program
\* opened (lines 149-151) and tore down (lines 189-191).  A file that does
\* not compile runs nothing.  The finally block runs on every way out of the
\* outer try, SystemExit included.
run_test(script) ==
  IF ~Compiles(script) THEN NotRun(1, "SyntaxError")
  ELSE LET out == RunSteps(script.steps, 1)
           how == HowEnded(script.steps, 1)
       IN [ stdout |-> out,
            exitcode |-> CASE how = "raised" -> 1
                           [] how = "exited" -> 3
                           [] OTHER -> 0,
            stderr |-> IF how = "raised" THEN "Traceback" ELSE "",
            opened |-> 1,
            closed |-> 1 ]

\* ---------------------------------------------------- the result aggregator
\* main.py:218-225  StepResult built from one parsed record
StepResult(line) ==
  [ step_id |-> line.step_id,
    name |-> line.name,
    status |-> line.status,
    error_message |-> line.error,
    execution_time |-> line.execution_time,
    acceptance_criteria_covered |-> <<>> ]

\* A variant that decodes with errors ignored.
DecodesAnything(stdout) == TRUE

\* main.py:213  stdout.decode() raises UnicodeDecodeError on invalid UTF-8
Decodes(stdout) == \A k \in 1..Len(stdout) : stdout[k].kind # "badbytes"

\* main.py:215-227  what the loop body does with one line:
\*   a record: a StepResult is appended;
\*   JSON that is no object (TypeError) or lacks a key (KeyError): the
\*   exception leaves the loop and reaches except Exception at line 243;
\*   anything else is not JSON: JSONDecodeError, continue
LineEffect(line) ==
  CASE line.kind = "record" -> "append"
    [] line.kind \in {"scalar", "partial"} -> "raise"
    [] OTHER -> "skip"

RECURSIVE ParseLines(_, _, _)
ParseLines(lines, k, acc) ==
  IF k > Len(lines) THEN [ok |-> TRUE, results |-> acc]
  ELSE CASE LineEffect(lines[k]) = "append" ->
              ParseLines(lines, k + 1, Append(acc, StepResult(lines[k])))
         [] LineEffect(lines[k]) = "skip" -> ParseLines(lines, k + 1, acc)
         [] OTHER -> [ok |-> FALSE, results |-> <<>>]

\* main.py:213-227
ParseOutput(stdout) ==
  IF ~Decodes(stdout) THEN [ok |-> FALSE, results |-> <<>>]
  ELSE ParseLines(stdout, 1, <<>>)

\* A variant that treats a non-zero exit code of the child as a fault.
ProcessResultsChecked(p) ==
  IF p.exitcode # 0 THEN [ok |-> FALSE, results |-> <<>>]
  ELSE ParseOutput(p.stdout)

\* main.py:210-227  stdout, stderr = await process.communicate(); of the
\* terminated child p only stdout is read: neither stderr nor
\* process.returncode is looked at
ProcessResults(p) == ParseOutput(p.stdout)

\* A variant that passes a run as soon as one step passed.
AnyPassed(results) ==
  IF \E k \in 1..Len(results) : results[k].status = "passed"
  THEN "passed" ELSE "failed"

\* main.py:230
OverallStatus(results) ==
  IF \A k \in 1..Len(results) : results[k].status = "passed"
  THEN "passed" ELSE "failed"

\* A variant with the operands exchanged.
ReversedDuration(start, end) == start - end

\* main.py:240  (end_time - start_time).total_seconds()
Duration(start, end) == end - start

\* main.py:232-241
TestResult(t, results, start, end) ==
  [ test_case_id |-> t.test_case_id,
    name |-> t.name,
    status |-> OverallStatus(results),
    steps_results |-> results,
    acceptance_criteria_covered |-> t.acceptance_criteria_covered,
    start_time |-> start,
    end_time |-> end,
    total_duration |-> Duration(start, end) ]

\* ------------------------------------------------------------------ state
VARIABLES
  pc,           \* per request: position in execute_test
  tc,           \* per request: the submitted TestCase
  headless,     \* per request: the mode flag
  fname,        \* per request: f.name of the NamedTemporaryFile, <<>> before it exists
  script_path,  \* per request: the local script_path (line 197), <<>> while unassigned
  start_time,   \* per request: the local start_time (line 200)
  proc,         \* per request: the child process
  pending,      \* per request: what the try block returned or raised
  response,     \* per request: what the caller receives
  fs,           \* the temp directory: path -> file
  now           \* the wall clock read by datetime.utcnow()

vars == <<pc, tc, headless, fname, script_path, start_time, proc, pending,
          response, fs, now>>

NoFile == [exists |-> FALSE, owner |-> 0, script |-> <<>>]
\* src is the owner of the file the child ran; launched_at and exited_at are
\* the clock readings at its start and at its termination
NoProc == [state |-> "none", stdout |-> <<>>, exitcode |-> 0, src |-> 0,
           launched_at |-> 0, exited_at |-> 0, stderr |-> "", opened |-> 0,
           closed |-> 0]
NoOutcome == [kind |-> "none", result |-> <<>>]
Http500 == [kind |-> "http500", result |-> <<>>]
Unhandled == [kind |-> "unhandled", result |-> <<>>]
Returned(res) == [kind |-> "result", result |-> <<res>>]

Init ==
  /\ pc = [r \in Runs |-> "idle"]
  /\ tc = [r \in Runs |-> NoCase]
  /\ headless = [r \in Runs |-> TRUE]
  /\ fname = [r \in Runs |-> <<>>]
  /\ script_path = [r \in Runs |-> <<>>]
  /\ start_time = [r \in Runs |-> 0]
  /\ proc = [r \in Runs |-> NoProc]
  /\ pending = [r \in Runs |-> NoOutcome]
  /\ response = [r \in Runs |-> NoOutcome]
  /\ fs = [p \in Paths |-> NoFile]
  /\ now = 0

\* ---------------------------------------------------------------- actions
\* main.py:137-138  a POST /api/v1/execute-test request arrives
Submit(r, cases) ==
  /\ pc[r] = "idle"
  /\ \E t \in cases, hl \in BOOLEAN :
       /\ tc' = [tc EXCEPT ![r] = t]
       /\ headless' = [headless EXCEPT ![r] = hl]
  /\ pc' = [pc EXCEPT ![r] = "create"]
  /\ UNCHANGED <<fname, script_path, start_time, proc, pending, response, fs, now>>

\* A variant that may pick the name of an existing file.
AnyNames == Paths

\* tempfile picks a name that no existing file has (O_CREAT | O_EXCL)
FreshNames == { p \in Paths : ~fs[p].exists }

\* main.py:140  NamedTemporaryFile(mode='w', suffix='.py', delete=False)
CreateTemp(r) ==
  /\ pc[r] = "create"
  /\ \E p \in FreshNames :
       /\ fname' = [fname EXCEPT ![r] = <<p>>]
       /\ fs' = [fs EXCEPT ![p] = [exists |-> TRUE, owner |-> r, script |-> <<>>]]
  /\ pc' = [pc EXCEPT ![r] = "write"]
  /\ UNCHANGED <<tc, headless, script_path, start_time, proc, pending, response, now>>

\* main.py:140  the file cannot be created: the OSError leaves the handler
CreateTempFault(r) ==
  /\ pc[r] = "create"
  /\ response' = [response EXCEPT ![r] = Unhandled]
  /\ pc' = [pc EXCEPT ![r] = "done"]
  /\ UNCHANGED <<tc, headless, fname, script_path, start_time, proc, pending, fs, now>>

\* main.py:141-200  the script is written and flushed, the with block closes
\* the file, script_path is assigned, results = [] and start_time is stamped
WriteScript(r) ==
  /\ pc[r] = "write"
  /\ fs' = [fs EXCEPT ![fname[r][1]].script = << BuildScript(tc[r], headless[r]) >>]
  /\ script_path' = [script_path EXCEPT ![r] = fname[r]]
  /\ start_time' = [start_time EXCEPT ![r] = now]
  /\ pc' = [pc EXCEPT ![r] = "launch"]
  /\ UNCHANGED <<tc, headless, fname, proc, pending, response, now>>

\* main.py:141-196  f.write or f.flush raises (disk full, a name or code the
\* locale encoding cannot encode): the with block closes the file, which was
\* opened with delete=False, and the exception leaves the handler before the
\* try/finally of line 202 is entered
WriteScriptFault(r) ==
  /\ pc[r] = "write"
  /\ response' = [response EXCEPT ![r] = Unhandled]
  /\ pc' = [pc EXCEPT ![r] = "done"]
  /\ UNCHANGED <<tc, headless, fname, script_path, start_time, proc, pending, fs, now>>

\* main.py:204-208  create_subprocess_exec('python3', script_path, ...)
Launch(r) ==
  /\ pc[r] = "launch"
  /\ proc' = [proc EXCEPT ![r] = [NoProc EXCEPT !.state = "running",
                                                  !.launched_at = now]]
  /\ pc' = [pc EXCEPT ![r] = "wait"]
  /\ UNCHANGED <<tc, headless, fname, script_path, start_time, pending, response, fs, now>>

\* main.py:204-208, 243-244  the child cannot be started: the exception is
\* caught by except Exception and becomes HTTPException(500)
LaunchFault(r) ==
  /\ pc[r] = "launch"
  /\ pending' = [pending EXCEPT ![r] = Http500]
  /\ pc' = [pc EXCEPT ![r] = "cleanup"]
  /\ UNCHANGED <<tc, headless, fname, script_path, start_time, proc, response, fs, now>>

\* The child: python3 opens the file named on its command line, runs it and
\* exits.  A missing file gives exit code 2, an empty file exit code 0.
ChildExec(r) ==
  /\ pc[r] = "wait"
  /\ proc[r].state = "running"
  /\ LET f == fs[script_path[r][1]]
         out == IF ~f.exists THEN NotRun(2, "can't open file")
                ELSE IF f.script = <<>> THEN NotRun(0, "")
                ELSE run_test(f.script[1])
     IN proc' = [proc EXCEPT ![r] = [state |-> "exited", stdout |-> out.stdout,
                                     exitcode |-> out.exitcode, src |-> f.owner,
                                     launched_at |-> proc[r].launched_at,
                                     exited_at |-> now, stderr |-> out.stderr,
                                     opened |-> out.opened,
                                     closed |-> out.closed]]
  /\ UNCHANGED <<pc, tc, headless, fname, script_path, start_time, pending, response, fs, now>>

\* main.py:210-244  communicate() returns; stdout is decoded and parsed, the
\* end time stamped and the TestResult built, or any exception is turned
\* into HTTPException(500)
Collect(r) ==
  /\ pc[r] = "wait"
  /\ proc[r].state = "exited"
  /\ LET p == ProcessResults(proc[r])
     IN pending' = [pending EXCEPT ![r] =
                      IF p.ok THEN Returned(TestResult(tc[r], p.results, start_time[r], now))
                      ELSE Http500]
  /\ pc' = [pc EXCEPT ![r] = "cleanup"]
  /\ UNCHANGED <<tc, headless, fname, script_path, start_time, proc, response, fs, now>>

\* main.py:245-247  finally: os.unlink(script_path) succeeds and the pending
\* return value or exception reaches the caller
Unlink(r) ==
  /\ pc[r] = "cleanup"
  /\ fs' = [fs EXCEPT ![script_path[r][1]] = NoFile]
  /\ response' = [response EXCEPT ![r] = pending[r]]
  /\ pc' = [pc EXCEPT ![r] = "done"]
  /\ UNCHANGED <<tc, headless, fname, script_path, start_time, proc, pending, now>>

\* main.py:245-247  os.unlink raises OSError (permissions, I/O error): an
\* exception raised in a finally block replaces the pending return value or
\* exception, and nothing catches it
UnlinkFault(r) ==
  /\ pc[r] = "cleanup"
  /\ response' = [response EXCEPT ![r] = Unhandled]
  /\ pc' = [pc EXCEPT ![r] = "done"]
  /\ UNCHANGED <<tc, headless, fname, script_path, start_time, proc, pending, fs, now>>

\* The wall clock advances.
Tick ==
  /\ now < MaxClock
  /\ now' = now + 1
  /\ UNCHANGED <<pc, tc, headless, fname, script_path, start_time, proc, pending,
                 response, fs>>

\* ---------------------------------------------------------- specifications
\* One request, any TestCase of at most MaxSteps steps.
Next ==
  \/ Submit(1, TestCasesOver(TcIdOf(1), CodePairs, MaxSteps))
  \/ CreateTemp(1)
  \/ CreateTempFault(1)
  \/ WriteScript(1)
  \/ WriteScriptFault(1)
  \/ Launch(1)
  \/ LaunchFault(1)
  \/ ChildExec(1)
  \/ Collect(1)
  \/ Unlink(1)
  \/ UnlinkFault(1)
  \/ Tick

Spec == Init /\ [][Next]_vars

\* Two concurrent requests with distinct TestCases.
NextConc ==
  \E r \in Runs :
    \/ Submit(r, TestCasesOver(TcIdOf(r), PlainPairs, ConcSteps))
    \/ CreateTemp(r)
    \/ CreateTempFault(r)
    \/ WriteScript(r)
    \/ WriteScriptFault(r)
    \/ Launch(r)
    \/ LaunchFault(r)
    \/ ChildExec(r)
    \/ Collect(r)
    \/ Unlink(r)
    \/ UnlinkFault(r)

SpecConc == Init /\ [][NextConc]_vars

\* The TestCases of one test_case_id whose steps stand in ascending order.
SortedCasesOver(tcid, pairs, maxLen) ==
  UNION { { TestCase(tcid, [i \in 1..n |-> Step(tcid, i, cp[i])]) :
              cp \in [1..n -> pairs] } :
          n \in 0..maxLen }

\* Two requests that run variants of the same TestCase.
NextSame ==
  \E r \in Runs :
    \/ Submit(r, SortedCasesOver("A", ExitPairs, SameSteps))
    \/ CreateTemp(r)
    \/ CreateTempFault(r)
    \/ WriteScript(r)
    \/ WriteScriptFault(r)
    \/ Launch(r)
    \/ LaunchFault(r)
    \/ ChildExec(r)
    \/ Collect(r)
    \/ Unlink(r)
    \/ UnlinkFault(r)

SpecSame == Init /\ [][NextSame]_vars

\* ------------------------------------------------- vocabulary of the claims
Done(r) == pc[r] = "done"
HasResult(r) == Done(r) /\ response[r].kind = "result"
Result(r) == response[r].result[1]
NumSteps(r) == Len(tc[r].steps)

\* The code of step i in the mode of request r, as submitted.
CodeOf(r, i) ==
  IF headless[r] THEN tc[r].steps[i].automation_code_headless
  ELSE tc[r].steps[i].automation_code_headed

HasStmt(code, stmt) == \E j \in 1..Len(code) : code[j] = stmt

\* The step's code is a statement sequence Python can run once the three
\* bootstrap statements are removed, and it does not end the process.
Runs_(code) ==
  \A j \in 1..Len(code) : code[j] \in (PyStmts \ {"exit"}) \cup StrippedStmts
AllRun(r) == \A i \in 1..NumSteps(r) : Runs_(CodeOf(r, i))
FaultsAt(r, i) == HasStmt(CodeOf(r, i), "raise")
FirstFaultAt(r, k) ==
  /\ k \in 1..NumSteps(r)
  /\ FaultsAt(r, k)
  /\ \A i \in 1..(k - 1) : ~FaultsAt(r, i)

\* ------------------------------------------------------------------ claims
\* C1: when step k is the first step whose code faults, the returned
\* TestResult has exactly k StepResults: those of steps 1..k-1 with status
\* passed, that of step k with status failed and the fault's message; later
\* steps do not appear and the overall status is failed.
C1_FailFast ==
  \A r \in Runs : \A k \in 1..NumSteps(r) :
    (HasResult(r) /\ AllRun(r) /\ FirstFaultAt(r, k)) =>
      LET res == Result(r).steps_results
      IN /\ Len(res) = k
         /\ \A i \in 1..k : res[i].step_id = tc[r].steps[i].step_id
         /\ \A i \in 1..(k - 1) : res[i].status = "passed"
         /\ res[k].status = "failed"
         /\ res[k].error_message = <<"boom">>
         /\ Result(r).status = "failed"

\* A two-step TestCase whose first step faulted has returned its TestResult.
C1_Witness ==
  \E r \in Runs :
    /\ HasResult(r) /\ AllRun(r) /\ NumSteps(r) = 2 /\ FirstFaultAt(r, 1)
    /\ Len(Result(r).steps_results) = 1

\* C2: when every step's code completes without fault, the returned
\* TestResult has exactly one StepResult per step, all passed, and the overall
\* status is passed.
C2_AllPass ==
  \A r \in Runs :
    (HasResult(r) /\ AllRun(r) /\ \A i \in 1..NumSteps(r) : ~FaultsAt(r, i)) =>
      LET res == Result(r).steps_results
      IN /\ Len(res) = NumSteps(r)
         /\ \A i \in 1..NumSteps(r) :
              /\ res[i].step_id = tc[r].steps[i].step_id
              /\ res[i].status = "passed"
         /\ Result(r).status = "passed"

\* A two-step TestCase whose steps both completed has returned its TestResult.
C2_Witness ==
  \E r \in Runs :
    /\ HasResult(r) /\ AllRun(r) /\ NumSteps(r) = 2
    /\ \A i \in 1..2 : ~FaultsAt(r, i)
    /\ Len(Result(r).steps_results) = 2

\* C3: the overall status of a returned TestResult is passed iff every
\* StepResult is passed and failed otherwise; a TestCase with zero steps
\* yields passed with no StepResults.
C3_OverallStatus ==
  \A r \in Runs :
    HasResult(r) =>
      LET res == Result(r).steps_results
          allPassed == \A i \in 1..Len(res) : res[i].status = "passed"
      IN /\ allPassed => Result(r).status = "passed"
         /\ ~allPassed => Result(r).status = "failed"
         /\ NumSteps(r) = 0 => (res = <<>> /\ Result(r).status = "passed")

\* A zero-step TestCase has returned its TestResult.
C3_Witness ==
  \E r \in Runs : HasResult(r) /\ NumSteps(r) = 0 /\ Result(r).status = "passed"

\* The temp file that request r created is still in the temp directory.
FileLeft(r) == \E p \in Paths : fs[p].exists /\ fs[p].owner = r

\* C4: once a request has completed, the temp script file it created no
\* longer exists, whatever the exit path.
C4_FileGone == \A r \in Runs : Done(r) => ~FileLeft(r)

\* The outcome of the try block of a request whose child has terminated.
Collected(r) == pc[r] \in {"cleanup", "done"} /\ proc[r].state = "exited"

RECURSIVE RecordsOf(_, _)
RecordsOf(lines, k) ==
  IF k > Len(lines) THEN <<>>
  ELSE IF lines[k].kind = "record"
       THEN << [step_id |-> lines[k].step_id, status |-> lines[k].status] >>
            \o RecordsOf(lines, k + 1)
       ELSE RecordsOf(lines, k + 1)

Brief(results) ==
  [i \in 1..Len(results) |->
     [step_id |-> results[i].step_id, status |-> results[i].status]]

Malformed(line) == line.kind \in {"text", "scalar", "partial"}

\* C5: a stdout line that is not a well-formed step record is skipped: the
\* run is not aborted and the valid records around it give their StepResults
\* in order.
C5_MalformedSkipped ==
  \A r \in Runs :
    ( /\ Collected(r)
      /\ \A k \in 1..Len(proc[r].stdout) : proc[r].stdout[k].kind # "badbytes"
      /\ \E k \in 1..Len(proc[r].stdout) : Malformed(proc[r].stdout[k]) ) =>
      /\ pending[r].kind = "result"
      /\ Brief(pending[r].result[1].steps_results) = RecordsOf(proc[r].stdout, 1)

\* The part of malformed-line tolerance that lines 226-227 do provide: a line
\* that is not JSON at all is skipped and the records around it are kept.
TextSkipped ==
  \A r \in Runs :
    ( /\ Collected(r)
      /\ \A k \in 1..Len(proc[r].stdout) :
           proc[r].stdout[k].kind \in {"record", "text"} ) =>
      /\ pending[r].kind = "result"
      /\ Brief(pending[r].result[1].steps_results) = RecordsOf(proc[r].stdout, 1)

InFlight(r) == pc[r] \in {"write", "launch", "wait", "cleanup"}

\* C6: two concurrent requests use each its own script file and child; no
\* request reads, overwrites or deletes the other's file, and a TestResult
\* holds only the identifiers and step results of its own TestCase.
C6_Isolation ==
  /\ \A r1, r2 \in Runs :
       (r1 # r2 /\ InFlight(r1) /\ InFlight(r2)) => fname[r1] # fname[r2]
  /\ \A r \in Runs :
       /\ InFlight(r) =>
            /\ fs[fname[r][1]].exists
            /\ fs[fname[r][1]].owner = r
       /\ (pc[r] \in {"launch", "wait", "cleanup"}) =>
            /\ script_path[r] = fname[r]
            /\ Len(fs[fname[r][1]].script) = 1
            /\ \A i \in 1..Len(fs[fname[r][1]].script[1].steps) :
                 fs[fname[r][1]].script[1].steps[i].step_id[1] = TcIdOf(r)
       /\ proc[r].state = "exited" => proc[r].src = r
       /\ pending[r].kind = "result" =>
            LET res == pending[r].result[1]
            IN /\ res.test_case_id = TcIdOf(r)
               /\ res.name = tc[r].name
               /\ \A i \in 1..Len(res.steps_results) :
                    \E j \in 1..NumSteps(r) :
                      res.steps_results[i].step_id = tc[r].steps[j].step_id

\* Both requests are past their child's termination at the same time, each
\* holding a TestResult with a StepResult.
C6_Witness ==
  /\ \A r \in Runs :
       /\ pc[r] = "cleanup"
       /\ pending[r].kind = "result"
       /\ Len(pending[r].result[1].steps_results) = 1
  /\ tc[1].test_case_id # tc[2].test_case_id

LaunchFailed(r) ==
  pc[r] \in {"cleanup", "done"} /\ script_path[r] # <<>> /\ proc[r].state = "none"
Undecodable(r) == Collected(r) /\ ~(\A k \in 1..Len(proc[r].stdout) :
                                      proc[r].stdout[k].kind # "badbytes")
NoRecord(r) == Collected(r) /\ \A k \in 1..Len(proc[r].stdout) :
                                  proc[r].stdout[k].kind # "record"
NoJson(r) == Collected(r) /\ \A k \in 1..Len(proc[r].stdout) :
                                proc[r].stdout[k].kind = "text"

\* C7 as stated: a child that cannot be launched, whose stdout cannot be
\* decoded, or that ends without a parseable step record, gives a request
\* failure and no TestResult.
C7_Original ==
  \A r \in Runs :
    (Done(r) /\ (LaunchFailed(r) \/ Undecodable(r) \/ NoRecord(r))) =>
      response[r].kind # "result"

\* C7 amended: a child that cannot be launched or whose stdout cannot be
\* decoded gives a request failure and no TestResult; a child that ends
\* having written no line that parses as JSON is no request failure: unless
\* deleting the script fails, the caller receives a TestResult with no
\* StepResults and status passed.
C7_ProcessFault ==
  \A r \in Runs :
    /\ (LaunchFailed(r) \/ Undecodable(r)) =>
         /\ pending[r] = Http500
         /\ Done(r) => response[r].kind \in {"http500", "unhandled"}
    /\ NoJson(r) =>
         /\ pending[r].kind = "result"
         /\ pending[r].result[1].steps_results = <<>>
         /\ pending[r].result[1].status = "passed"
         /\ Done(r) => (response[r] = pending[r] \/ FileLeft(r))

\* A child whose stdout did not decode ended in a request failure.
C7_Witness ==
  \E r \in Runs : Done(r) /\ Undecodable(r) /\ response[r] = Http500

\* The order field of the step that a StepResult belongs to.
OrderOf(r, sid) ==
  (CHOOSE i \in 1..NumSteps(r) : tc[r].steps[i].step_id = sid)

\* C8: the StepResults of a returned TestResult are in strictly ascending
\* order of the steps' order field, wherever the steps stand in the list.
C8_AscendingOrder ==
  \A r \in Runs :
    HasResult(r) =>
      LET res == Result(r).steps_results
      IN \A i, j \in 1..Len(res) :
           i < j => tc[r].steps[OrderOf(r, res[i].step_id)].order
                      < tc[r].steps[OrderOf(r, res[j].step_id)].order

\* C9: a failure to delete the script does not change what the caller
\* receives: the TestResult or error the run had produced before cleanup.
C9_CleanupNotSurfaced ==
  \A r \in Runs :
    (Done(r) /\ pending[r].kind # "none") => response[r] = pending[r]

\* C10: total_duration is end_time minus start_time and never negative;
\* start_time is read before the child is launched and end_time after it
\* has terminated.
C10_Duration ==
  \A r \in Runs :
    pending[r].kind = "result" =>
      LET res == pending[r].result[1]
      IN /\ res.total_duration = res.end_time - res.start_time
         /\ res.total_duration >= 0
         /\ res.start_time <= proc[r].launched_at
         /\ proc[r].exited_at <= res.end_time

\* A returned TestResult of a run during which the clock advanced.
C10_Witness ==
  \E r \in Runs : HasResult(r) /\ Result(r).total_duration > 0

\* C11: every StepResult of a returned TestResult carries the
\* acceptance_criteria_covered of the step with the same step_id in the
\* submitted TestCase.
C11_CriteriaPropagated ==
  \A r \in Runs :
    HasResult(r) =>
      \A i \in 1..Len(Result(r).steps_results) :
        \A j \in 1..NumSteps(r) :
          tc[r].steps[j].step_id = Result(r).steps_results[i].step_id =>
            Result(r).steps_results[i].acceptance_criteria_covered
              = tc[r].steps[j].acceptance_criteria_covered

\* C12: for every TestCase and mode flag, the program that execute_test
\* builds opens exactly one browser session and tears it down exactly once.
C12_OneSession ==
  \A r \in Runs :
    (proc[r].state = "exited" /\ proc[r].src = r) =>
      (proc[r].opened = 1 /\ proc[r].closed = 1)

\* What the builder does achieve: a program that compiles opens one session
\* and tears it down once, whether its steps complete or one of them faults.
OneSessionWhenCompiled ==
  \A r \in Runs :
    ( /\ proc[r].state = "exited" /\ proc[r].src = r
      /\ Compiles(BuildScript(tc[r], headless[r])) ) =>
      (proc[r].opened = 1 /\ proc[r].closed = 1)

\* What of a run's outcome C13 speaks of: whether a TestResult was produced,
\* its StepResults and its overall status.
Verdict(r) ==
  [ kind |-> pending[r].kind,
    steps_results |-> IF pending[r].kind = "result"
                      THEN pending[r].result[1].steps_results ELSE <<>>,
    status |-> IF pending[r].kind = "result"
               THEN pending[r].result[1].status ELSE "" ]

\* C13: two runs whose children wrote the same stdout lines produce the same
\* StepResults and the same overall status, whatever the children's exit
\* codes and stderr were.
C13_StdoutAlone ==
  \A r1, r2 \in Runs :
    ( /\ Collected(r1) /\ Collected(r2)
      /\ proc[r1].stdout = proc[r2].stdout ) =>
      Verdict(r1) = Verdict(r2)

\* Two runs whose children wrote the same record and ended with different
\* exit codes have both produced a TestResult.
C13_Witness ==
  /\ Collected(1) /\ Collected(2)
  /\ proc[1].stdout = proc[2].stdout
  /\ Len(proc[1].stdout) > 0
  /\ proc[1].exitcode # proc[2].exitcode
  /\ pending[1].kind = "result" /\ pending[2].kind = "result"

====
